---- MODULE Spec2Model ----
(***************************************************************************)
(* DS4432 driver (src/src/lib.rs): a session holding an I2C bus handle and *)
(* two optional Rfs values, with set_status / status over the bus.         *)
(*                                                                         *)
(* An f32 is modelled by its IEEE-754 binary32 bit pattern: a non-negative *)
(* value is the integer of its 32 bits (sign bit clear), a negative value  *)
(* is minus the bit pattern of its magnitude.  Values are zero, normal,    *)
(* subnormal, infinity or NaN; negative zero is not represented.           *)
(***************************************************************************)
EXTENDS Integers, Sequences, FiniteSets, TLC

(***************************************************************************)
(* IEEE-754 arithmetic, round to nearest, ties to even                     *)
(***************************************************************************)
F32Inf == 2139095040
F32NaN == 2143289344
F32ManBits == 23
F32Bias == 127

Abs(x) == IF x < 0 THEN 0 - x ELSE x
F32IsNaN(b) == Abs(b) > F32Inf
F32IsInf(b) == Abs(b) = F32Inf
F32Exp(b) == Abs(b) \div 2^F32ManBits
\* the 24-bit significand of a normal value, the 23-bit one of a subnormal
F32Sig(b) == IF F32Exp(b) = 0 THEN Abs(b) % 2^F32ManBits
             ELSE (Abs(b) % 2^F32ManBits) + 2^F32ManBits
\* the exponent e with value = F32Sig * 2^(e - 150)
F32Scale(b) == IF F32Exp(b) = 0 THEN 1 ELSE F32Exp(b)
F32Signed(neg, mag) == IF neg /\ mag # 0 THEN 0 - mag ELSE mag

RoundNearestEven(m, roundBit, sticky) ==
    IF roundBit = 1 /\ (sticky \/ m % 2 = 1) THEN m + 1 ELSE m

\* the bits of the value sig * 2^(e - 150), sig in 2^23 .. 2^24, 1 <= e
F32Pack(e, sig) ==
    IF e >= 2 * F32Bias + 1 THEN F32Inf
    ELSE LET bits == (e - 1) * 2^F32ManBits + sig
         IN  IF bits >= F32Inf THEN F32Inf ELSE bits

\* long division: <<q, r>> with acc * 2^n + floor(rem * 2^n / d) = q
RECURSIVE DivBits(_, _, _, _)
DivBits(acc, rem, d, n) ==
    IF n <= 0 THEN <<acc, rem>>
    ELSE IF 2 * rem >= d THEN DivBits(2 * acc + 1, 2 * rem - d, d, n - 1)
         ELSE DivBits(2 * acc, 2 * rem, d, n - 1)

\* number of bits of x > 0
RECURSIVE BitLen(_)
BitLen(x) == IF x = 0 THEN 0 ELSE 1 + BitLen(x \div 2)

\* u32 -> f32 (`rfs as f32`)
U32ToF32(r) ==
    IF r = 0 THEN 0
    ELSE LET len == BitLen(r)
         IN  IF len <= F32ManBits + 1
             THEN F32Pack(F32Bias + len - 1, r * 2^(F32ManBits + 1 - len))
             ELSE LET sh   == len - (F32ManBits + 1)
                      low  == r % 2^sh
                      sig  == RoundNearestEven(r \div 2^sh, low \div 2^(sh - 1),
                                               low % 2^(sh - 1) # 0)
                  IN  F32Pack(F32Bias + len - 1, sig)

\* sig, round bit and sticky bit of (hi * 2^24 + lo) shifted right by s >= 1
ShiftSig(hi, lo, s) ==
    IF s > 48 THEN 0
    ELSE IF s > 24 THEN hi \div 2^(s - 24)
    ELSE hi * 2^(24 - s) + lo \div 2^s
ShiftRoundBit(hi, lo, s) ==
    IF s > 49 THEN 0
    ELSE IF s > 24 THEN (hi \div 2^(s - 25)) % 2
    ELSE (lo \div 2^(s - 1)) % 2
ShiftSticky(hi, lo, s) ==
    IF s > 49 THEN hi # 0 \/ lo # 0
    ELSE IF s > 24 THEN hi % 2^(s - 25) # 0 \/ lo # 0
    ELSE lo % 2^(s - 1) # 0

\* f32 * f32
F32Mul(a, b) ==
    LET neg == (a < 0) # (b < 0)
    IN  IF F32IsNaN(a) \/ F32IsNaN(b) THEN F32NaN
        ELSE IF F32IsInf(a) \/ F32IsInf(b)
             THEN IF a = 0 \/ b = 0 THEN F32NaN ELSE F32Signed(neg, F32Inf)
        ELSE IF a = 0 \/ b = 0 THEN 0
        ELSE LET sa == F32Sig(a)
                 sb == F32Sig(b)
                 a1 == sa \div 4096
                 a0 == sa % 4096
                 b1 == sb \div 4096
                 b0 == sb % 4096
                 mid == a1 * b0 + a0 * b1
                 lowFull == (mid % 4096) * 4096 + a0 * b0
                 \* the exact product of the significands is hi * 2^24 + lo
                 hi == a1 * b1 + mid \div 4096 + lowFull \div 2^24
                 lo == lowFull % 2^24
                 len == IF hi = 0 THEN BitLen(lo) ELSE 24 + BitLen(hi)
                 \* exponent of the normalised result
                 e == F32Scale(a) + F32Scale(b) + len - 174
                 s == (len - 24) + (IF e < 1 THEN 1 - e ELSE 0)
                 eEff == IF e < 1 THEN 1 ELSE e
             IN  IF s <= 0 THEN F32Signed(neg, F32Pack(eEff, lo * 2^(0 - s)))
                 ELSE F32Signed(neg, F32Pack(eEff,
                        RoundNearestEven(ShiftSig(hi, lo, s),
                                         ShiftRoundBit(hi, lo, s),
                                         ShiftSticky(hi, lo, s))))

\* f32 / f32
F32Div(a, b) ==
    LET neg == (a < 0) # (b < 0)
    IN  IF F32IsNaN(a) \/ F32IsNaN(b) THEN F32NaN
        ELSE IF F32IsInf(a) THEN IF F32IsInf(b) THEN F32NaN ELSE F32Signed(neg, F32Inf)
        ELSE IF F32IsInf(b) THEN 0
        ELSE IF b = 0 THEN IF a = 0 THEN F32NaN ELSE F32Signed(neg, F32Inf)
        ELSE IF a = 0 THEN 0
        ELSE LET la == BitLen(F32Sig(a))
                 lb == BitLen(F32Sig(b))
                 na == F32Sig(a) * 2^(24 - la)
                 nb == F32Sig(b) * 2^(24 - lb)
                 k  == IF na >= nb THEN 0 ELSE 1
                 \* quotient (na * 2^k) / nb is in [1, 2)
                 e  == (F32Scale(a) - (24 - la)) - (F32Scale(b) - (24 - lb)) - k + F32Bias
                 eEff == IF e < 1 THEN 1 ELSE e
                 \* fraction bits kept after the leading one
                 n  == IF e < 1 THEN 22 + e ELSE 23
                 rem0 == na * 2^k - nb
             IN  IF n < -1 THEN 0
                 ELSE IF n = -1
                      THEN F32Signed(neg,
                             F32Pack(eEff, RoundNearestEven(0, 1, rem0 # 0)))
                 ELSE LET q  == DivBits(1, rem0, nb, n)
                          rb == DivBits(0, q[2], nb, 1)
                      IN  F32Signed(neg, F32Pack(eEff,
                             RoundNearestEven(q[1], rb[1], rb[2] # 0)))

\* f32 -> u8 (`as u8`: truncates toward zero, saturates, NaN is 0)
F32ToU8(b) ==
    IF b <= 0 \/ F32IsNaN(b) THEN 0
    ELSE IF F32Exp(b) < F32Bias THEN 0
    ELSE IF F32Exp(b) >= F32Bias + 8 THEN 255
    ELSE F32Sig(b) \div 2^(F32ManBits - (F32Exp(b) - F32Bias))

\* num / den computed in f64 and narrowed to f32, for 0 < num, den < 2^26:
\* the f64 quotient's 53-bit significand is hi * 2^29 + lo
F64QuotToF32(num, den) ==
    LET ln == BitLen(num)
        ld == BitLen(den)
        \* align both to 26 bits, then make the quotient lie in [1, 2)
        n0 == num * 2^(26 - ln)
        d0 == den * 2^(26 - ld)
        k  == IF n0 >= d0 THEN 0 ELSE 1
        n1 == n0 * 2^k
        ex == (ln - ld) - k
        h  == DivBits(1, n1 - d0, d0, 23)
        l  == DivBits(0, h[2], d0, 29)
        rb == DivBits(0, l[2], d0, 1)
        lo53 == RoundNearestEven(l[1], rb[1], rb[2] # 0)
        hi == IF lo53 = 2^29 THEN h[1] + 1 ELSE h[1]
        lo == IF lo53 = 2^29 THEN 0 ELSE lo53
        sig == RoundNearestEven(hi, lo \div 2^28, lo % 2^28 # 0)
    IN  F32Pack(ex + F32Bias, sig)

(***************************************************************************)
(* Values of the driver                                                    *)
(***************************************************************************)
\* Option<T>
None == <<>>
Some(x) == <<x>>
IsSome(o) == o # None
Unwrap(o) == o[1]

\* Result<T, Error<E>>
Ok(v) == <<"Ok", v>>
Err(e) == <<"Err", e>>
IsOk(r) == r[1] = "Ok"
Unit == <<"()", 0>>

\* enum Error<E>
I2c(e) == <<"I2c", e>>
InvalidCode(c) == <<"InvalidCode", c>>
InvalidRfs == <<"InvalidRfs", 0>>
UnknownRfs == <<"UnknownRfs", 0>>

\* enum Status; the payload of a MicroAmp variant is an f32
Disable == <<"Disable", 0>>
Sink(c) == <<"Sink", c>>
SinkMicroAmp(i) == <<"SinkMicroAmp", i>>
Source(c) == <<"Source", c>>
SourceMicroAmp(i) == <<"SourceMicroAmp", i>>

\* enum Output and its register address (`value as u8`)
Outputs == {"Zero", "One"}
OutputToU8_AlwaysZero(output) == 248
OutputToU8(output) == IF output = "Zero" THEN 248 ELSE 249

SLAVE_ADDRESS == 72
RECOMMENDED_RFS_MIN == 40000
RECOMMENDED_RFS_MAX == 160000
U8Max == 255
\* 62_312.5 as an f32, and twice 62_312.5 as an integer
K_F32 == 1198745728
K_TIMES_2 == 124625

\* Status::code
code(st) ==
    IF st[1] \in {"Sink", "Source"} THEN Some(st[2])
    ELSE IF st[1] = "Disable" THEN Some(0)
    ELSE None

\* Status::current_ua: ((62_312.5 * code as f64) / (rfs_ohm as f64)) as f32
current_ua(st, rfs_ohm) ==
    IF code(st) = None THEN None
    ELSE IF Unwrap(code(st)) = 0 THEN Some(0)
    ELSE Some(F64QuotToF32(K_TIMES_2 * Unwrap(code(st)), 2 * rfs_ohm))

U8ToStatus_Unmasked(value) ==
    LET sourcing == (value \div 128) % 2 = 1
        c == value % 128
    IN  IF c = 0 THEN Disable
        ELSE IF sourcing THEN Source(value)
        ELSE Sink(value)

U8ToStatus_SourceZero(value) ==
    LET sourcing == (value \div 128) % 2 = 1
        c == value % 128
    IN  IF sourcing THEN Source(c)
        ELSE IF c = 0 THEN Disable
        ELSE Sink(c)

\* impl From<u8> for Status
U8ToStatus(value) ==
    LET sourcing == (value \div 128) % 2 = 1
        c == value % 128
    IN  IF c = 0 THEN Disable
        ELSE IF sourcing THEN Source(c)
        ELSE Sink(c)

\* x | 0x80 on a u8
OrMsb(x) == IF (x \div 128) % 2 = 1 THEN x ELSE x + 128

\* ((current * (rfs as f32)) / 62_312.5) as u8
CurrentToCode(current, rfs) == F32ToU8(F32Div(F32Mul(current, U32ToF32(rfs)), K_F32))

RfsRejected_Exclusive(not_recommended, rfs_ohm) ==
    /\ IsSome(rfs_ohm)
    /\ IF not_recommended THEN Unwrap(rfs_ohm) = 0
       ELSE Unwrap(rfs_ohm) <= RECOMMENDED_RFS_MIN \/ Unwrap(rfs_ohm) >= RECOMMENDED_RFS_MAX

\* the check of one Rfs value in with_rfs, under either feature setting
RfsRejected(not_recommended, rfs_ohm) ==
    /\ IsSome(rfs_ohm)
    /\ IF not_recommended THEN Unwrap(rfs_ohm) = 0
       ELSE Unwrap(rfs_ohm) < RECOMMENDED_RFS_MIN \/ Unwrap(rfs_ohm) > RECOMMENDED_RFS_MAX

RfsOf_AlwaysZero(r0, r1, output) == r0

\* the Rfs that set_status and status select for an output
RfsOf(r0, r1, output) == IF output = "Zero" THEN r0 ELSE r1

EncodeSink_Unchecked(c) == Ok(c)

\* the arm Status::Sink(code) of set_status
EncodeSink(c) == IF c > 127 THEN Err(InvalidCode(c)) ELSE Ok(c)

EncodeSource_NoMsb(c) == IF c > 127 THEN Err(InvalidCode(c)) ELSE Ok(c)

\* the arm Status::Source(code) of set_status
EncodeSource(c) == IF c > 127 THEN Err(InvalidCode(c)) ELSE Ok(OrMsb(c))

\* the `value` that set_status computes: Ok(byte), or the early return
SetStatusValue(r0, r1, output, st) ==
    IF st = Disable \/ st = Sink(0) \/ st = Source(0) THEN Ok(0)
    ELSE IF st[1] = "Sink" THEN EncodeSink(st[2])
    ELSE IF st[1] = "Source" THEN EncodeSource(st[2])
    ELSE IF st[1] = "SinkMicroAmp"
         THEN IF RfsOf(r0, r1, output) = None THEN Err(UnknownRfs)
              ELSE Ok(CurrentToCode(st[2], Unwrap(RfsOf(r0, r1, output))))
    ELSE IF RfsOf(r0, r1, output) = None THEN Err(UnknownRfs)
         ELSE Ok(OrMsb(CurrentToCode(st[2], Unwrap(RfsOf(r0, r1, output)))))

ResolveStatus_SinkOnly(r0, r1, output, byte) ==
    LET st == U8ToStatus(byte)
        rfs == RfsOf(r0, r1, output)
    IN  IF rfs = None THEN st
        ELSE IF st[1] = "Sink" THEN SinkMicroAmp(Unwrap(current_ua(Sink(st[2]), Unwrap(rfs))))
        ELSE IF st[1] = "Source"
             THEN SinkMicroAmp(Unwrap(current_ua(Source(st[2]), Unwrap(rfs))))
        ELSE st

\* the Status that status() makes of the byte read
ResolveStatus(r0, r1, output, byte) ==
    LET st == U8ToStatus(byte)
        rfs == RfsOf(r0, r1, output)
    IN  IF rfs = None THEN st
        ELSE IF st[1] = "Sink" THEN SinkMicroAmp(Unwrap(current_ua(Sink(st[2]), Unwrap(rfs))))
        ELSE IF st[1] = "Source"
             THEN SourceMicroAmp(Unwrap(current_ua(Source(st[2]), Unwrap(rfs))))
        ELSE st

\* the transactions the bus sees
WriteTx(bytes, e) ==
    [kind |-> "write", addr |-> SLAVE_ADDRESS, wr |-> bytes, rd |-> <<>>, err |-> e]
WriteReadTx(bytes, buf, e) ==
    [kind |-> "write_read", addr |-> SLAVE_ADDRESS, wr |-> bytes, rd |-> buf, err |-> e]

(***************************************************************************)
(* State                                                                   *)
(***************************************************************************)
VARIABLES
    not_recommended_rfs, \* the build's feature "not-recommended-rfs"
    pc,                  \* "start", "live" (a session exists), "failed", "released"
    rfs0_ohm, rfs1_ohm,  \* the session's fields
    i2c,                 \* the bus: the transactions it has received, in order
    ctor,                \* the construction call and its result
    hist                 \* the calls made on the session, with their results

vars == <<not_recommended_rfs, pc, rfs0_ohm, rfs1_ohm, i2c, ctor, hist>>

NoCall == [op |-> "none", rfs0 |-> None, rfs1 |-> None, ret |-> Ok(Unit)]

Init ==
    /\ not_recommended_rfs \in BOOLEAN
    /\ pc = "start"
    /\ rfs0_ohm = None
    /\ rfs1_ohm = None
    /\ i2c = <<>>
    /\ ctor = NoCall
    /\ hist = <<>>

(***************************************************************************)
(* Operations                                                              *)
(***************************************************************************)
with_rfs(r0, r1) ==
    /\ pc = "start"
    /\ IF RfsRejected(not_recommended_rfs, r0) \/ RfsRejected(not_recommended_rfs, r1)
       THEN /\ pc' = "failed"
            /\ ctor' = [op |-> "with_rfs", rfs0 |-> r0, rfs1 |-> r1, ret |-> Err(InvalidRfs)]
            /\ UNCHANGED <<rfs0_ohm, rfs1_ohm>>
       ELSE /\ pc' = "live"
            /\ ctor' = [op |-> "with_rfs", rfs0 |-> r0, rfs1 |-> r1, ret |-> Ok(Unit)]
            /\ rfs0_ohm' = r0
            /\ rfs1_ohm' = r1
    /\ UNCHANGED <<not_recommended_rfs, i2c, hist>>

\* Self::with_rfs(i2c, None, None).unwrap()
new ==
    /\ pc = "start"
    /\ ~(RfsRejected(not_recommended_rfs, None))
    /\ pc' = "live"
    /\ ctor' = [op |-> "new", rfs0 |-> None, rfs1 |-> None, ret |-> Ok(Unit)]
    /\ rfs0_ohm' = None
    /\ rfs1_ohm' = None
    /\ UNCHANGED <<not_recommended_rfs, i2c, hist>>

\* bus = 0: the bus accepts the write; otherwise it fails with error `bus`
set_status(output, st, bus) ==
    /\ pc = "live"
    /\ LET value == SetStatusValue(rfs0_ohm, rfs1_ohm, output, st)
       IN  IF ~IsOk(value)
           THEN /\ hist' = Append(hist, [op |-> "set_status", output |-> output,
                                        arg |-> st, ret |-> value])
                /\ i2c' = i2c
           ELSE /\ i2c' = Append(i2c, WriteTx(<<OutputToU8(output), value[2]>>, bus))
                /\ hist' = Append(hist, [op |-> "set_status", output |-> output, arg |-> st,
                                        ret |-> IF bus = 0 THEN Ok(Unit) ELSE Err(I2c(bus))])
    /\ UNCHANGED <<not_recommended_rfs, pc, rfs0_ohm, rfs1_ohm, ctor>>

\* bus = 0: the bus answers with `byte`; otherwise it fails with error `bus`
status(output, byte, bus) ==
    /\ pc = "live"
    /\ IF bus # 0
       THEN /\ i2c' = Append(i2c, WriteReadTx(<<OutputToU8(output)>>, <<0>>, bus))
            /\ hist' = Append(hist, [op |-> "status", output |-> output,
                                    arg |-> Disable, ret |-> Err(I2c(bus))])
       ELSE /\ i2c' = Append(i2c, WriteReadTx(<<OutputToU8(output)>>, <<byte>>, 0))
            /\ hist' = Append(hist, [op |-> "status", output |-> output, arg |-> Disable,
                                    ret |-> Ok(ResolveStatus(rfs0_ohm, rfs1_ohm, output, byte))])
    /\ UNCHANGED <<not_recommended_rfs, pc, rfs0_ohm, rfs1_ohm, ctor>>

\* returns the bus; the session is consumed
release ==
    /\ pc = "live"
    /\ pc' = "released"
    /\ UNCHANGED <<not_recommended_rfs, rfs0_ohm, rfs1_ohm, i2c, ctor, hist>>

\* returns the session itself
destroy ==
    /\ pc = "live"
    /\ UNCHANGED vars

(***************************************************************************)
(* Specifications                                                          *)
(***************************************************************************)
MaxCalls == 2

\* 32.71406 as an f32 (the current of the driver's tests)
F32_32_71406 == 1107483443

RfsInputs == {None, Some(0), Some(80000)}
StatusInputs == {Disable, Source(42), Sink(200), SinkMicroAmp(F32_32_71406)}
ByteInputs == {0, 170}
BusResults == {0, 1, 2}

Next ==
    \/ new
    \/ \E r0, r1 \in RfsInputs : with_rfs(r0, r1)
    \/ /\ Len(hist) < MaxCalls
       /\ \E o \in Outputs, st \in StatusInputs, bus \in BusResults : set_status(o, st, bus)
    \/ /\ Len(hist) < MaxCalls
       /\ \E o \in Outputs, b \in ByteInputs, bus \in BusResults : status(o, b, bus)
    \/ release
    \/ destroy

Spec == Init /\ [][Next]_vars

(***************************************************************************)
(* Round trips on a bus that works: one call with any argument, then the   *)
(* inverse call on the same output, fed with what the first call produced  *)
(* (the device answers a read with the byte last written to the register). *)
(***************************************************************************)
RfsInputsRoundTrip ==
    {None, Some(0), Some(39999), Some(40000), Some(100000), Some(160000), Some(160001)}
\* 0.0, 32.71406, 110.0, 200.0, -1.0, infinity, NaN
CurrentInputs == {0, F32_32_71406, 1121714176, 1128792064, -1065353216, F32Inf, F32NaN}
AllBytes == 0 .. U8Max
AllStatuses ==
    {Disable} \cup {Sink(c) : c \in AllBytes} \cup {Source(c) : c \in AllBytes}
    \cup {SinkMicroAmp(i) : i \in CurrentInputs}
    \cup {SourceMicroAmp(i) : i \in CurrentInputs}

NextRoundTrip ==
    \/ new
    \/ \E r0, r1 \in RfsInputsRoundTrip : with_rfs(r0, r1)
    \/ hist = <<>> /\ \E o \in Outputs, st \in AllStatuses : set_status(o, st, 0)
    \/ hist = <<>> /\ \E o \in Outputs, b \in AllBytes : status(o, b, 0)
    \/ /\ Len(hist) = 1
       /\ hist[1].op = "status"
       /\ IsOk(hist[1].ret)
       /\ set_status(hist[1].output, hist[1].ret[2], 0)
    \/ /\ Len(hist) = 1
       /\ hist[1].op = "set_status"
       /\ IsOk(hist[1].ret)
       /\ status(hist[1].output, i2c[1].wr[2], 0)
    \/ Len(hist) = 2 /\ release
    \/ Len(hist) = 2 /\ destroy

SpecRoundTrip == Init /\ [][NextRoundTrip]_vars

(***************************************************************************)
(* Properties                                                              *)
(***************************************************************************)
ChannelRfs(o) == IF o = "Zero" THEN rfs0_ohm ELSE rfs1_ohm
ChannelReg(o) == IF o = "Zero" THEN 248 ELSE 249
LastCall == hist[Len(hist)]
\* a call that came back with a validation error reached no bus
Issued(h) == IsOk(h.ret) \/ h.ret[2][1] = "I2c"
\* the index in i2c of the transaction of call k, which issued one
TxIndex(k) == Cardinality({j \in 1 .. k : Issued(hist[j])})

\* C1: set_status with Sink(c) or Source(c), c in 128..=255, returns
\* InvalidCode(c) with that very code and leaves the bus log as it was,
\* on every output and whatever Rfs values the session holds.
C1_InvalidCodeNoBus ==
    [][(/\ Len(hist') = Len(hist) + 1
        /\ LastCall'.op = "set_status"
        /\ LastCall'.arg[1] \in {"Sink", "Source"}
        /\ LastCall'.arg[2] \in 128 .. 255)
       => (/\ LastCall'.ret = <<"Err", <<"InvalidCode", LastCall'.arg[2]>>>>
           /\ i2c' = i2c)]_vars

C1_Witness ==
    /\ Len(hist) = 1
    /\ hist[1].op = "set_status"
    /\ hist[1].output = "One"
    /\ hist[1].arg = <<"Source", 200>>
    /\ hist[1].ret = <<"Err", <<"InvalidCode", 200>>>>
    /\ rfs1_ohm = <<100000>>
    /\ i2c = <<>>

\* C2: set_status with SinkMicroAmp or SourceMicroAmp returns UnknownRfs and
\* issues no bus transaction exactly when the Rfs of the requested output is
\* absent; with that Rfs present it issues one transaction and does not return
\* UnknownRfs, whatever the Rfs of the other output.
C2_UnknownRfsOwnChannel ==
    [][(/\ Len(hist') = Len(hist) + 1
        /\ LastCall'.op = "set_status"
        /\ LastCall'.arg[1] \in {"SinkMicroAmp", "SourceMicroAmp"})
       => IF ChannelRfs(LastCall'.output) = <<>>
          THEN LastCall'.ret = <<"Err", <<"UnknownRfs", 0>>>> /\ i2c' = i2c
          ELSE /\ LastCall'.ret # <<"Err", <<"UnknownRfs", 0>>>>
               /\ Len(i2c') = Len(i2c) + 1]_vars

C2_Witness ==
    /\ Len(hist) = 1
    /\ hist[1].op = "set_status"
    /\ hist[1].output = "Zero"
    /\ hist[1].arg[1] = "SinkMicroAmp"
    /\ rfs0_ohm = <<>>
    /\ rfs1_ohm # <<>>
    /\ hist[1].ret = <<"Err", <<"UnknownRfs", 0>>>>
    /\ i2c = <<>>

\* C3: the bus has received exactly one transaction per status call and per
\* set_status call that passed validation, in call order, also when the bus
\* failed (no retry; the bus' error is what the caller gets); each goes to
\* address 0x48, starts with the register of the call's output (0xF8 / 0xF9),
\* a set_status write has two bytes, a status write-read one written byte and
\* one read byte.
C3_OneTransactionPerCall ==
    LET Invalid(h) ==
            /\ h.op = "set_status"
            /\ \/ h.arg[1] \in {"Sink", "Source"} /\ h.arg[2] > 127
               \/ h.arg[1] \in {"SinkMicroAmp", "SourceMicroAmp"}
                    /\ ChannelRfs(h.output) = <<>>
        Passed(h) == ~Invalid(h)
        calls == SelectSeq(hist, Passed)
    IN  /\ Len(i2c) = Len(calls)
        /\ \A k \in 1 .. Len(calls) :
              /\ i2c[k].addr = 72
              /\ i2c[k].wr[1] = ChannelReg(calls[k].output)
              /\ calls[k].op = "set_status" =>
                    i2c[k].kind = "write" /\ Len(i2c[k].wr) = 2 /\ Len(i2c[k].rd) = 0
              /\ calls[k].op = "status" =>
                    i2c[k].kind = "write_read" /\ Len(i2c[k].wr) = 1 /\ Len(i2c[k].rd) = 1
              /\ i2c[k].err # 0 => calls[k].ret = <<"Err", <<"I2c", i2c[k].err>>>>
              /\ i2c[k].err = 0 => calls[k].ret[1] = "Ok"

C3_Witness ==
    /\ Len(hist) = 2
    /\ Len(i2c) = 2
    /\ hist[1].op = "set_status" /\ hist[1].output = "One"
    /\ i2c[1].err = 2
    /\ hist[1].ret = <<"Err", <<"I2c", 2>>>>
    /\ hist[2].op = "status" /\ hist[2].output = "Zero"
    /\ i2c[2].wr = <<248>>
    /\ i2c[2].err = 0

\* C4: status() on an output without Rfs decodes every byte 0..255: low seven
\* bits zero give Disable whatever bit 7 is, any other byte gives
\* Source(byte & 0x7F) with bit 7 set and Sink(byte & 0x7F) with bit 7 clear,
\* and the code is in 1..=127.
C4_DecodeTotal ==
    (/\ Len(hist) >= 1
     /\ hist[1].op = "status"
     /\ i2c[1].err = 0
     /\ ChannelRfs(hist[1].output) = <<>>)
    => LET b == i2c[1].rd[1]
           st == hist[1].ret[2]
       IN  /\ hist[1].ret[1] = "Ok"
           /\ b % 128 = 0 => st = <<"Disable", 0>>
           /\ b % 128 # 0 /\ b >= 128 => st = <<"Source", b - 128>>
           /\ b % 128 # 0 /\ b < 128 => st = <<"Sink", b>>
           /\ st[1] \in {"Sink", "Source"} => st[2] \in 1 .. 127

C4_Witness ==
    /\ Len(hist) = 1
    /\ hist[1].op = "status"
    /\ ChannelRfs(hist[1].output) = <<>>
    /\ i2c[1].rd = <<128>>
    /\ hist[1].ret = <<"Ok", <<"Disable", 0>>>>

\* C5: on an output without Rfs, the byte set_status writes for Sink(c) or
\* Source(c), c in 0..=127, is reported by the following status call on that
\* output as Disable when c = 0 and as the same Sink(c) / Source(c) otherwise;
\* Disable, Sink(0) and Source(0) are written as 0x00.
C5_EncodeThenDecode ==
    (/\ Len(hist) >= 1
     /\ hist[1].op = "set_status"
     /\ ChannelRfs(hist[1].output) = <<>>)
    => /\ (hist[1].arg[1] \in {"Disable", "Sink", "Source"} /\ hist[1].arg[2] = 0)
          => (hist[1].ret[1] = "Ok" /\ i2c[1].wr[2] = 0)
       /\ (/\ hist[1].arg[1] \in {"Sink", "Source"}
           /\ hist[1].arg[2] \in 0 .. 127
           /\ Len(hist) = 2
           /\ hist[2].op = "status"
           /\ hist[2].output = hist[1].output
           /\ i2c[2].rd = <<i2c[1].wr[2]>>)
          => hist[2].ret = <<"Ok", IF hist[1].arg[2] = 0 THEN <<"Disable", 0>>
                                   ELSE hist[1].arg>>

C5_Witness ==
    /\ Len(hist) = 2
    /\ hist[1].op = "set_status"
    /\ hist[1].arg = <<"Source", 127>>
    /\ ChannelRfs(hist[1].output) = <<>>
    /\ i2c[1].wr[2] = 255
    /\ hist[2].op = "status"
    /\ hist[2].ret = <<"Ok", <<"Source", 127>>>>

\* C6: on an output without Rfs, for a byte b read whose low seven bits are
\* in 1..=127, set_status with the status that status() reported writes
\* exactly b to that output's register.
C6_DecodeThenEncode ==
    (/\ Len(hist) = 2
     /\ hist[1].op = "status"
     /\ i2c[1].rd[1] % 128 \in 1 .. 127
     /\ ChannelRfs(hist[1].output) = <<>>
     /\ hist[2].op = "set_status"
     /\ hist[2].output = hist[1].output
     /\ hist[2].arg = hist[1].ret[2])
    => /\ hist[2].ret = <<"Ok", <<"()", 0>>>>
       /\ Len(i2c) = 2
       /\ i2c[2].wr = <<ChannelReg(hist[1].output), i2c[1].rd[1]>>

C6_Witness ==
    /\ Len(hist) = 2
    /\ hist[1].op = "status"
    /\ hist[1].output = "One"
    /\ i2c[1].rd = <<170>>
    /\ rfs1_ohm = <<>>
    /\ hist[2].op = "set_status"
    /\ hist[2].arg = <<"Source", 42>>
    /\ i2c[2].wr = <<249, 170>>

\* C7: status() reports SinkMicroAmp / SourceMicroAmp (direction of bit 7)
\* exactly when the byte's low seven bits are nonzero and the Rfs of that
\* output is present; without that Rfs it reports Sink(code) / Source(code),
\* whatever the other output's Rfs; a zero magnitude is Disable either way.
C7_CurrentOnlyWithOwnRfs ==
    (/\ Len(hist) >= 1
     /\ hist[1].op = "status"
     /\ i2c[1].err = 0)
    => LET b == i2c[1].rd[1]
           st == hist[1].ret[2]
           own == ChannelRfs(hist[1].output)
       IN  /\ hist[1].ret[1] = "Ok"
           /\ st[1] \in {"SinkMicroAmp", "SourceMicroAmp"} <=> (b % 128 # 0 /\ own # <<>>)
           /\ st[1] = "SinkMicroAmp" => b < 128
           /\ st[1] = "SourceMicroAmp" => b >= 128
           /\ (b % 128 # 0 /\ own = <<>>) =>
                 st = <<IF b >= 128 THEN "Source" ELSE "Sink", b % 128>>
           /\ b % 128 = 0 => st = <<"Disable", 0>>

C7_Witness ==
    /\ Len(hist) = 1
    /\ hist[1].op = "status"
    /\ hist[1].output = "One"
    /\ rfs0_ohm = <<100000>>
    /\ rfs1_ohm = <<>>
    /\ i2c[1].rd = <<170>>
    /\ hist[1].ret = <<"Ok", <<"Source", 42>>>>

\* C8: construction succeeds exactly when each Rfs value that is present
\* passes the build's policy (recommended range: 40 000 <= r <= 160 000;
\* otherwise: r # 0) and fails with InvalidRfs if not; an absent value
\* passes, so new() never fails; a built session holds the two values given.
C8_ConstructionValidates ==
    LET Passes(r) ==
            \/ r = <<>>
            \/ IF not_recommended_rfs THEN r[1] # 0
               ELSE 40000 <= r[1] /\ r[1] <= 160000
    IN  /\ ctor.op = "with_rfs" =>
              /\ (Passes(ctor.rfs0) /\ Passes(ctor.rfs1)) =>
                    ctor.ret[1] = "Ok" /\ pc # "failed"
              /\ ~(Passes(ctor.rfs0) /\ Passes(ctor.rfs1)) =>
                    ctor.ret = <<"Err", <<"InvalidRfs", 0>>>> /\ pc = "failed"
        /\ ctor.op = "new" =>
              ctor.ret[1] = "Ok" /\ pc # "failed" /\ ctor.rfs0 = <<>> /\ ctor.rfs1 = <<>>
        /\ pc \in {"live", "released"} =>
              rfs0_ohm = ctor.rfs0 /\ rfs1_ohm = ctor.rfs1
        /\ pc = "start" <=> ctor.op = "none"

C8_Witness ==
    /\ ~not_recommended_rfs
    /\ ctor.op = "with_rfs"
    /\ ctor.rfs0 = <<160000>>
    /\ ctor.rfs1 = <<40000>>
    /\ pc = "live"
    /\ rfs0_ohm = <<160000>>
    /\ rfs1_ohm = <<40000>>

\* C9: a set_status call that returns success for a request of sink direction
\* (Sink(c) or SinkMicroAmp(i)) has written a byte whose bit 7 is clear.
C9_SinkNeverWrittenAsSource ==
    \A k \in 1 .. Len(hist) :
        (/\ hist[k].op = "set_status"
         /\ hist[k].arg[1] \in {"Sink", "SinkMicroAmp"}
         /\ hist[k].ret[1] = "Ok")
        => i2c[TxIndex(k)].wr[2] < 128

\* C10: for a register byte of code c in 1..=127 on an output with Rfs, the
\* current status() reports, passed back to set_status in the same direction,
\* writes code c (the same byte) again.
C10_CurrentRoundTrip ==
    (/\ Len(hist) = 2
     /\ hist[1].op = "status"
     /\ i2c[1].rd[1] % 128 \in 1 .. 127
     /\ ChannelRfs(hist[1].output) # <<>>
     /\ hist[2].op = "set_status"
     /\ hist[2].output = hist[1].output
     /\ hist[2].arg = hist[1].ret[2])
    => /\ Len(i2c) = 2
       /\ i2c[2].wr = <<ChannelReg(hist[1].output), i2c[1].rd[1]>>
====
